---- MODULE Spec2Model ----
(***************************************************************************)
(* Model of the schema-ontology package: the four JSON Schema literals of  *)
(* src/src/index.ts (EntitySchema, ComponentSchema, RelationshipSchema,    *)
(* SerializedEntitySchema), evaluated by the JSON Schema keywords they     *)
(* use, the literal examples of the README, and the projection /           *)
(* reprojection pair between RelationshipType and the embedded             *)
(* {predicate, object} form of SerializedEntityType.                       *)
(***************************************************************************)
EXTENDS Integers, Sequences, FiniteSets, TLC

VARIABLES op, input, output, origin

vars == <<op, input, output, origin>>

(***************************************************************************)
(* Bounds of the model.                                                    *)
(***************************************************************************)
MaxComponents == 2
MaxRelationships == 2

(***************************************************************************)
(* JSON values.  Every value is a record tagged with its JSON Schema type  *)
(* name; the payload lives in a field of its own per type.                 *)
(***************************************************************************)
Str(s) == [t |-> "string", s |-> s]
Num(n) == [t |-> "number", n |-> n]
Bool(b) == [t |-> "boolean", b |-> b]
Null == [t |-> "null"]
Arr(q) == [t |-> "array", a |-> q]
Obj(f) == [t |-> "object", o |-> f]

\* JavaScript's undefined: a property that is not there.
Absent == [t |-> "undefined"]

\* The object literal with the fields of r that are not undefined.
MkObj(r) == Obj([k \in {j \in DOMAIN r : r[j] # Absent} |-> r[k]])

EmptyObj == MkObj([none |-> Absent])

Range(q) == {q[i] : i \in DOMAIN q}

SeqsUpTo(S, n) == UNION {[1..m -> S] : m \in 0..n}

(***************************************************************************)
(* The strings of the model, and the `uri` format.                         *)
(***************************************************************************)
URIStrings ==
    { "did:example:alice", "did:example:bob", "https://schema.org/knows",
      "https://schema.org/Person", "urn:example:component:tags",
      "urn:example:component:verified", "https://example.com/users/42",
      "https://example.edu/courses/intro-to-graphs",
      "urn:example:predicate:enrolledIn" }

NonURIStrings == {"not a uri", "not-a-uri-either", "a", "b", "knows", ""}

IsURI(s) == s \in URIStrings

(***************************************************************************)
(* The schema literals.                                                    *)
(***************************************************************************)
\* EntitySchema closed against further properties.
EntitySchemaClosed ==
    [ type |-> "object",
      properties |-> [id |-> [type |-> "string", format |-> "uri"]],
      required |-> <<"id">>,
      additionalProperties |-> FALSE ]

\* EntitySchema without the uri format on id.
EntitySchemaNoFormat ==
    [ type |-> "object",
      properties |-> [id |-> [type |-> "string"]],
      required |-> <<"id">> ]

EntitySchema ==
    [ type |-> "object",
      properties |-> [id |-> [type |-> "string", format |-> "uri"]],
      required |-> <<"id">> ]

\* ComponentSchema with a closed properties payload.
ComponentSchemaClosedPayload ==
    [ type |-> "object",
      properties |->
        [ type |-> [type |-> "string", format |-> "uri"],
          description |-> [type |-> "string"],
          label |-> [type |-> "string"],
          properties |-> [type |-> "object", additionalProperties |-> FALSE] ],
      required |-> <<"type">> ]

ComponentSchema ==
    [ type |-> "object",
      properties |->
        [ type |-> [type |-> "string", format |-> "uri"],
          description |-> [type |-> "string"],
          label |-> [type |-> "string"],
          properties |-> [type |-> "object", additionalProperties |-> TRUE] ],
      required |-> <<"type">> ]

\* RelationshipSchema with the uri format on predicate too.
RelationshipSchemaURIPredicate ==
    [ type |-> "object",
      properties |->
        [ subject |-> [type |-> "string", format |-> "uri"],
          predicate |-> [type |-> "string", format |-> "uri"],
          object |-> [type |-> "string", format |-> "uri"] ],
      required |-> <<"subject", "object", "predicate">> ]

RelationshipSchema ==
    [ type |-> "object",
      properties |->
        [ subject |-> [type |-> "string", format |-> "uri"],
          predicate |-> [type |-> "string"],
          object |-> [type |-> "string", format |-> "uri"] ],
      required |-> <<"subject", "object", "predicate">> ]

EmbeddedRelationshipSchema ==
    [ type |-> "object",
      properties |->
        [ predicate |-> [type |-> "string"],
          object |-> [type |-> "string", format |-> "uri"] ] ]

SerializedEntitySchema ==
    [ type |-> "object",
      properties |->
        [ id |-> [type |-> "string", format |-> "uri"],
          components |-> [type |-> "array", items |-> ComponentSchema],
          relationships |->
            [type |-> "array", items |-> EmbeddedRelationshipSchema] ],
      required |-> <<"id", "components", "relationships">> ]

(***************************************************************************)
(* JSON Schema evaluation: the set of violations of schema by value v,     *)
(* each one the keyword that failed and the path of the value it failed    *)
(* at (property names and 0-based array indices).                          *)
(***************************************************************************)
Violation(kw, at) == [kw |-> kw, at |-> at]

RECURSIVE Violations(_, _, _)
Violations(schema, v, at) ==
    LET has(kw) == kw \in DOMAIN schema
        typeV ==
            IF has("type") /\ v.t # schema.type
            THEN {Violation("type", at)} ELSE {}
        formatV ==
            IF has("format") /\ v.t = "string" /\ schema.format = "uri"
               /\ ~IsURI(v.s)
            THEN {Violation("format", at)} ELSE {}
        requiredV ==
            IF has("required") /\ v.t = "object"
            THEN {Violation("required", Append(at, k)) :
                    k \in Range(schema.required) \ DOMAIN v.o}
            ELSE {}
        propertiesV ==
            IF has("properties") /\ v.t = "object"
            THEN UNION {Violations(schema.properties[k], v.o[k], Append(at, k)) :
                          k \in DOMAIN schema.properties \cap DOMAIN v.o}
            ELSE {}
        additionalV ==
            IF has("additionalProperties") /\ v.t = "object"
               /\ ~schema.additionalProperties
            THEN {Violation("additionalProperties", Append(at, k)) :
                    k \in DOMAIN v.o \
                      (IF has("properties") THEN DOMAIN schema.properties ELSE {})}
            ELSE {}
        itemsV ==
            IF has("items") /\ v.t = "array"
            THEN UNION {Violations(schema.items, v.a[i], Append(at, ToString(i - 1))) :
                          i \in DOMAIN v.a}
            ELSE {}
    IN typeV \cup formatV \cup requiredV \cup propertiesV \cup additionalV \cup itemsV

Validate(schema, v) == Violations(schema, v, <<>>)

Accepts(schema, v) == Validate(schema, v) = {}

(***************************************************************************)
(* The literal examples of the README, each with the type it is declared   *)
(* with.                                                                   *)
(***************************************************************************)
ReadmeAlice == Obj([id |-> Str("did:example:alice")])

ReadmeProfileComponent ==
    Obj([ type |-> Str("https://schema.org/Person"),
          label |-> Str("Person Profile"),
          description |-> Str("Basic profile fields"),
          properties |->
            Obj([givenName |-> Str("Alice"), familyName |-> Str("Doe")]) ])

ReadmeTagsComponent ==
    Obj([ type |-> Str("urn:example:component:tags"),
          properties |->
            Obj([tags |-> Arr(<<Str("friend"), Str("colleague")>>)]) ])

ReadmeVerifiedMarker ==
    Obj([ type |-> Str("urn:example:component:verified"),
          label |-> Str("Verified Account"),
          description |-> Str("Indicates the account has been verified") ])

ReadmeKnows ==
    Obj([ source |-> Str("did:example:alice"),
          target |-> Str("did:example:bob"),
          predicate |-> Str("https://schema.org/knows") ])

ReadmeEnrolledIn ==
    Obj([ source |-> Str("https://example.com/users/42"),
          target |-> Str("https://example.edu/courses/intro-to-graphs"),
          predicate |-> Str("urn:example:predicate:enrolledIn") ])

ReadmeSerializedAlice ==
    Obj([ id |-> Str("did:example:alice"),
          components |->
            Arr(<< Obj([ type |-> Str("https://schema.org/Person"),
                         label |-> Str("Person Profile"),
                         properties |->
                           Obj([ givenName |-> Str("Alice"),
                                 familyName |-> Str("Doe") ]) ]) >>),
          relationships |->
            Arr(<< Obj([ target |-> Str("did:example:bob"),
                         predicate |-> Str("https://schema.org/knows") ]) >>) ])

ReadmeExamples ==
    { [name |-> "alice", declared |-> "Entity", value |-> ReadmeAlice],
      [name |-> "profileComponent", declared |-> "Component",
       value |-> ReadmeProfileComponent],
      [name |-> "tagsComponent", declared |-> "Component",
       value |-> ReadmeTagsComponent],
      [name |-> "verifiedMarker", declared |-> "Component",
       value |-> ReadmeVerifiedMarker],
      [name |-> "knows", declared |-> "Relationship", value |-> ReadmeKnows],
      [name |-> "enrolledIn", declared |-> "Relationship",
       value |-> ReadmeEnrolledIn],
      [name |-> "serializedAlice", declared |-> "SerializedEntity",
       value |-> ReadmeSerializedAlice] }

SchemaOf(declared) ==
    CASE declared = "Entity" -> EntitySchema
      [] declared = "Component" -> ComponentSchema
      [] declared = "Relationship" -> RelationshipSchema
      [] declared = "SerializedEntity" -> SerializedEntitySchema

(***************************************************************************)
(* Candidate values handed to the validators.                              *)
(***************************************************************************)
\* Values a field that should hold a URI is tried with.
FieldValues ==
    { Absent, Str("did:example:alice"), Str("did:example:bob"),
      Str("not a uri"), Str("knows"), Str(""), Num(1) }

\* Values a free-text field is tried with.
TextValues == {Absent, Str("Person Profile"), Str(""), Num(1), Null}

\* The payload of the spec's openness example:
\* {nested: {arbitrary: ["structure", 1, true]}}.
NestedPayload ==
    Obj([nested |->
           Obj([arbitrary |-> Arr(<<Str("structure"), Num(1), Bool(TRUE)>>)])])

PropertiesValues ==
    { Absent, EmptyObj, NestedPayload,
      Obj([givenName |-> Str("Alice"), familyName |-> Str("Doe")]),
      Arr(<<Str("friend")>>), Str("tags"), Num(1), Null }

\* Values that are no object at all.
NonObjects == {Str("did:example:alice"), Num(1), Null, Arr(<<>>)}

EntityCandidates ==
    {MkObj(r) : r \in [id : FieldValues, label : TextValues]} \cup NonObjects

ComponentCandidates ==
    {MkObj(r) : r \in [ type : FieldValues, description : TextValues,
                        label : TextValues, properties : PropertiesValues ]}
      \cup NonObjects

RelationshipCandidates ==
    {MkObj(r) : r \in [ subject : FieldValues, predicate : FieldValues,
                        object : FieldValues,
                        target : {Absent, Str("did:example:bob")} ]}
      \cup NonObjects

\* Elements a components array is tried with.
ComponentItems ==
    { Obj([type |-> Str("https://schema.org/Person"), properties |-> NestedPayload]),
      ReadmeVerifiedMarker,
      Obj([type |-> Str("not-a-uri-either")]),
      Obj([label |-> Str("Person Profile")]) }

\* Elements a relationships array is tried with.
EmbeddedItems ==
    { Obj([predicate |-> Str("https://schema.org/knows"),
           object |-> Str("did:example:bob")]),
      Obj([predicate |-> Str("knows"), object |-> Str("did:example:alice")]),
      Obj([predicate |-> Str("knows"), object |-> Str("not a uri")]),
      Obj([predicate |-> Num(1), object |-> Str("did:example:bob")]),
      Obj([target |-> Str("did:example:bob"),
           predicate |-> Str("https://schema.org/knows")]),
      Obj([object |-> Str("did:example:bob")]),
      EmptyObj,
      Str("did:example:bob") }

SerializedEntityCandidates ==
    {MkObj(r) :
       r \in [ id : {Absent, Str("did:example:alice"), Str("not a uri"), Num(1)},
               components :
                 {Absent, EmptyObj}
                   \cup {Arr(q) : q \in SeqsUpTo(ComponentItems, MaxComponents)},
               relationships :
                 {Absent, EmptyObj}
                   \cup {Arr(q) : q \in SeqsUpTo(EmbeddedItems, MaxRelationships)} ]}
      \cup NonObjects

(***************************************************************************)
(* Projection and reprojection between full relationships and the          *)
(* embedded {predicate, object} form.                                      *)
(***************************************************************************)
EntityIds == {"did:example:alice", "did:example:bob"}

\* Components a producer attaches.
ProducerComponents ==
    { Obj([type |-> Str("https://schema.org/Person"), properties |-> NestedPayload]),
      ReadmeVerifiedMarker,
      ReadmeTagsComponent }

\* Full relationships a producer holds.
ProducerRelationships ==
    {Obj([subject |-> Str(s), predicate |-> Str(p), object |-> Str(o)]) :
       s \in EntityIds, p \in {"knows", "https://schema.org/knows"},
       o \in EntityIds}

\* The fields of RelationshipType.
RelationshipFields == {"subject", "predicate", "object"}

\* The fields of an element of SerializedEntityType's relationships, as the
\* README names them.
EmbeddedFieldsReadme == {"predicate", "target"}

\* The fields of an element of SerializedEntityType's relationships.
EmbeddedFields == {"predicate", "object"}

\* The member k of a value, undefined when the value has none.
Member(item, k) ==
    IF item.t = "object" /\ k \in DOMAIN item.o THEN item.o[k] ELSE Absent

\* The embedded form of the full relationship r.
Embed(r) == MkObj([k \in EmbeddedFields |-> Member(r, k)])

\* The full relationship of the embedded pair under the envelope's id.
Unembed(id, pair) ==
    MkObj([k \in RelationshipFields |->
             IF k = "subject" THEN id ELSE Member(pair, k)])

\* project that keeps the relationships whose subject matches and drops the
\* others.
projectMatching(E, C, R) ==
    LET kept == SelectSeq(R, LAMBDA r : r.o.subject = Str(E))
    IN [ ok |-> TRUE,
         value |->
           Obj([ id |-> Str(E),
                 components |-> Arr(C),
                 relationships |->
                   Arr([i \in DOMAIN kept |-> Embed(kept[i])]) ]) ]

project(E, C, R) ==
    IF \E i \in DOMAIN R : R[i].o.subject # Str(E)
    THEN [ok |-> FALSE, error |-> "ConsistencyError"]
    ELSE [ ok |-> TRUE,
           value |->
             Obj([ id |-> Str(E),
                   components |-> Arr(C),
                   relationships |-> Arr([i \in DOMAIN R |-> Embed(R[i])]) ]) ]

reproject(s) ==
    [ entity |-> Obj([id |-> s.o.id]),
      components |-> s.o.components.a,
      relationships |->
        [i \in DOMAIN s.o.relationships.a |->
           Unembed(s.o.id, s.o.relationships.a[i])] ]

(***************************************************************************)
(* Error kinds: the kind a failed keyword is reported as.                  *)
(***************************************************************************)
ErrorKind(v) ==
    CASE v.kw = "required" -> "ShapeError"
      [] v.kw = "type" /\ v.at = <<>> -> "ShapeError"
      [] v.kw = "type" /\ v.at # <<>> -> "TypeError"
      [] v.kw = "format" -> "FormatError"
      [] OTHER -> "ShapeError"

Kinds(vs) == {ErrorKind(v) : v \in vs}

(***************************************************************************)
(* The state machine: one action per operation.  Every operation is a pure *)
(* function, so a behaviour applies one operation to one input drawn from  *)
(* the candidates above, and may then deserialize the envelope it holds.   *)
(***************************************************************************)
NoOrigin == [from |-> "none"]

Init ==
    /\ op = "init"
    /\ input = Null
    /\ output = {}
    /\ origin = NoOrigin

ValidateEntity ==
    /\ op = "init"
    /\ \E v \in EntityCandidates :
        /\ op' = "Entity"
        /\ input' = v
        /\ output' = Validate(EntitySchema, v)
        /\ origin' = NoOrigin

ValidateComponent ==
    /\ op = "init"
    /\ \E v \in ComponentCandidates :
        /\ op' = "Component"
        /\ input' = v
        /\ output' = Validate(ComponentSchema, v)
        /\ origin' = NoOrigin

ValidateRelationship ==
    /\ op = "init"
    /\ \E v \in RelationshipCandidates :
        /\ op' = "Relationship"
        /\ input' = v
        /\ output' = Validate(RelationshipSchema, v)
        /\ origin' = NoOrigin

ValidateSerializedEntity ==
    /\ op = "init"
    /\ \E v \in SerializedEntityCandidates :
        /\ op' = "SerializedEntity"
        /\ input' = v
        /\ output' = Validate(SerializedEntitySchema, v)
        /\ origin' = NoOrigin

ValidateExample ==
    /\ op = "init"
    /\ \E e \in ReadmeExamples :
        /\ op' = "Example"
        /\ input' = e
        /\ output' = Validate(SchemaOf(e.declared), e.value)
        /\ origin' = NoOrigin

Project ==
    /\ op = "init"
    /\ \E E \in EntityIds, C \in SeqsUpTo(ProducerComponents, MaxComponents),
       R \in SeqsUpTo(ProducerRelationships, MaxRelationships) :
        /\ op' = "project"
        /\ input' = [id |-> E, components |-> C, relationships |-> R]
        /\ output' = project(E, C, R)
        /\ origin' = NoOrigin

\* A consumer deserializes an envelope: the one projection just produced, or
\* one the Serialized Entity validator just accepted.
Reproject ==
    /\ \/ op = "project" /\ output.ok
       \/ op = "SerializedEntity" /\ output = {}
    /\ op' = "reproject"
    /\ input' = IF op = "project" THEN output.value ELSE input
    /\ output' = reproject(input')
    /\ origin' = [from |-> op, input |-> input]

Next ==
    \/ ValidateEntity
    \/ ValidateComponent
    \/ ValidateRelationship
    \/ ValidateSerializedEntity
    \/ ValidateExample
    \/ Project
    \/ Reproject

Spec == Init /\ [][Next]_vars

(***************************************************************************)
(* Shapes the validators are specified to accept, stated directly on the   *)
(* candidate.                                                              *)
(***************************************************************************)
HasField(v, k) == v.t = "object" /\ k \in DOMAIN v.o

StringField(v, k) == HasField(v, k) /\ v.o[k].t = "string"

URIField(v, k) == StringField(v, k) /\ IsURI(v.o[k].s)

NonURIField(v, k) == StringField(v, k) /\ ~IsURI(v.o[k].s)

OptionalString(v, k) == HasField(v, k) => v.o[k].t = "string"

EntityShape(v) == URIField(v, "id")

EntityShapeExact(v) == URIField(v, "id") /\ DOMAIN v.o = {"id"}

ComponentShape(v) ==
    /\ URIField(v, "type")
    /\ OptionalString(v, "description")
    /\ OptionalString(v, "label")
    /\ HasField(v, "properties") => v.o.properties.t = "object"

RelationshipShape(v) ==
    /\ URIField(v, "subject")
    /\ URIField(v, "object")
    /\ StringField(v, "predicate")

EmbeddedShape(v) == StringField(v, "predicate") /\ URIField(v, "object")

SerializedEntityShape(v) ==
    /\ URIField(v, "id")
    /\ HasField(v, "components")
    /\ v.o.components.t = "array"
    /\ \A i \in DOMAIN v.o.components.a : ComponentShape(v.o.components.a[i])
    /\ HasField(v, "relationships")
    /\ v.o.relationships.t = "array"
    /\ \A i \in DOMAIN v.o.relationships.a :
          EmbeddedShape(v.o.relationships.a[i])

(***************************************************************************)
(* Properties.                                                             *)
(***************************************************************************)
RoundTrip == op = "reproject" /\ origin.from = "project"

\* C1: reproject(project(E, C, R)) = (E, C, R) whenever every relationship of
\* R has subject E: the entity is {id: E}, and the components and the
\* relationships come back with the same length, in the same positions, with
\* duplicates kept and every properties payload unchanged.
C1_RoundTrip ==
    RoundTrip =>
        output = [ entity |-> Obj([id |-> Str(origin.input.id)]),
                   components |-> origin.input.components,
                   relationships |-> origin.input.relationships ]

\* A round trip of two equal components carrying the nested payload and two
\* equal relationships.
C1_Witness ==
    /\ RoundTrip
    /\ Len(origin.input.components) >= 2
    /\ origin.input.components[1] = origin.input.components[2]
    /\ HasField(origin.input.components[1], "properties")
    /\ origin.input.components[1].o.properties = NestedPayload
    /\ Len(origin.input.relationships) >= 2
    /\ origin.input.relationships[1] = origin.input.relationships[2]
    /\ Len(output.components) >= 2
    /\ Len(output.relationships) >= 2

SubjectsMatch(E, R) == \A i \in DOMAIN R : R[i].o.subject = Str(E)

\* C2: projection is all-or-nothing on the subject check: one relationship
\* with another subject, at any position, makes project fail with
\* ConsistencyError and yield no Serialized Entity; otherwise it succeeds.
C2_AllOrNothing ==
    op = "project" =>
        IF SubjectsMatch(input.id, input.relationships)
        THEN output.ok /\ DOMAIN output = {"ok", "value"}
        ELSE output = [ok |-> FALSE, error |-> "ConsistencyError"]

\* A projection refused because of its second relationship, the first one
\* matching.
C2_Witness ==
    /\ op = "project"
    /\ Len(input.relationships) >= 2
    /\ input.relationships[1].o.subject = Str(input.id)
    /\ input.relationships[2].o.subject # Str(input.id)
    /\ ~output.ok

\* C3: Serialized Entity validation succeeds iff id is a URI, every element
\* of components satisfies the Component validator and every element of
\* relationships has both predicate (a string) and object (a URI).
C3_SerializedEntityIff ==
    op = "SerializedEntity" => (output = {} <=> SerializedEntityShape(input))

\* C4 as stated: Relationship validation succeeds iff subject and object are
\* URIs and predicate is a non-empty string.
C4_PredicateNonEmpty ==
    op = "Relationship" =>
        (output = {} <=> RelationshipShape(input) /\ input.o.predicate.s # "")

\* C4 as amended: Relationship validation succeeds iff subject and object are
\* URIs and predicate is a string, the empty string included.
C4_RelationshipIff ==
    op = "Relationship" => (output = {} <=> RelationshipShape(input))

\* A relationship with an empty predicate, accepted.
C4_Witness ==
    /\ op = "Relationship"
    /\ StringField(input, "predicate")
    /\ input.o.predicate.s = ""
    /\ output = {}

\* C5 as stated: Entity validation succeeds iff the candidate holds exactly
\* the field id and id is a URI.
C5_EntityExactlyId ==
    op = "Entity" => (output = {} <=> EntityShapeExact(input))

\* C5 as amended: Entity validation succeeds iff the candidate is an object
\* whose id is a URI, whatever other fields it carries.
C5_EntityIff ==
    op = "Entity" => (output = {} <=> EntityShape(input))

\* An entity with a valid id and one more field, accepted.
C5_Witness ==
    /\ op = "Entity"
    /\ HasField(input, "label")
    /\ URIField(input, "id")
    /\ output = {}

\* C6: Component validation succeeds iff type is a URI, description and label
\* are absent or strings, and properties is absent or an object; no shape
\* nested in properties causes rejection.
C6_ComponentIff ==
    op = "Component" => (output = {} <=> ComponentShape(input))

\* A component carrying the nested payload, accepted.
C6_Witness ==
    /\ op = "Component"
    /\ HasField(input, "properties")
    /\ input.o.properties = NestedPayload
    /\ output = {}

\* C7: every literal example of the README is accepted by the validator of
\* the type it is declared with.
C7_ReadmeExamplesAccepted == op = "Example" => output = {}

\* C9: with the required fields present and strings, a URI-constrained field
\* holding a string that is no URI fails with FormatError, and a predicate
\* that is no URI never does.
C9_FormatError ==
    /\ (op = "Entity" /\ NonURIField(input, "id"))
          => Kinds(output) = {"FormatError"}
    /\ (op = "Component" /\ NonURIField(input, "type"))
          => "FormatError" \in Kinds(output)
    /\ ( /\ op = "Relationship"
         /\ StringField(input, "subject")
         /\ StringField(input, "predicate")
         /\ StringField(input, "object") )
          => IF NonURIField(input, "subject") \/ NonURIField(input, "object")
             THEN Kinds(output) = {"FormatError"}
             ELSE output = {}
    /\ ( /\ op = "SerializedEntity"
         /\ StringField(input, "id")
         /\ HasField(input, "components")
         /\ HasField(input, "relationships")
         /\ \/ NonURIField(input, "id")
            \/ /\ input.o.relationships.t = "array"
               /\ \E i \in DOMAIN input.o.relationships.a :
                     NonURIField(input.o.relationships.a[i], "object") )
          => "FormatError" \in Kinds(output)

\* The entity {id: "not a uri"}, failing with FormatError.
C9_Witness ==
    /\ op = "Entity"
    /\ input = Obj([id |-> Str("not a uri")])
    /\ "FormatError" \in Kinds(output)

\* C10: reprojecting an envelope the Serialized Entity validator accepted
\* yields an Entity, Components and as many Relationships as the envelope
\* has, each accepted by its validator.
C10_ReprojectClosed ==
    (op = "reproject" /\ origin.from = "SerializedEntity") =>
        /\ Accepts(EntitySchema, output.entity)
        /\ \A i \in DOMAIN output.components :
              Accepts(ComponentSchema, output.components[i])
        /\ Len(output.relationships) = Len(input.o.relationships.a)
        /\ \A i \in DOMAIN output.relationships :
              Accepts(RelationshipSchema, output.relationships[i])

====
